---------------------------- MODULE Spec2Model ----------------------------
(* Model of the Science Fictions podcast analyzer                          *)
(* (src/analyze_podcast.py, src/generate_report_only.py).                  *)
(*                                                                         *)
(* Python strings are sequences of one-character strings, so that regular  *)
(* expression searches, sanitisation, slicing and file-name construction   *)
(* are computed character by character as the code computes them.          *)
EXTENDS Integers, Sequences, FiniteSets, TLC

VARIABLES
    \* ---- one process of analyze_podcast.main / PodcastAnalyzer ----
    episodes,         \* parse_rss_feed(): list of episode dicts, feed order
    downloads,        \* downloads_dir: file name -> content
    transcripts,      \* transcripts_dir: file name -> content
    progress_file,    \* results/progress.json on disk
    progress_results, \* self.progress['results']
    aliased,          \* self.progress['results'] is the list all_findings
    all_findings,     \* local list of process_episodes
    whisper_model,    \* self.whisper_model (0 is None, else instance id)
    idx,              \* position of the loop of process_episodes (1-based)
    pc,               \* position inside the process
    audio_path,       \* local of process_episodes
    transcript,       \* local of process_episodes
    findings,         \* local of process_episodes
    resumed,          \* this process is a later run of the program
    report,           \* rows written by generate_report of this process, in order
    \* ---- observations of the run (history) ----
    stages,           \* per episode, the stages run in this process
    last_dl,          \* what the last download_episode call saw and did
    last_tr,          \* what the last transcribe_episode call saw and did
    load_count,       \* successful whisper.load_model calls in this process
    invocations,      \* engine instance of each whisper_model.transcribe call
    prev_persisted,   \* results in progress.json when this process started
    saved_in_run,     \* _save_progress completed in this process
    completed,        \* episodes whose pipeline completed in this process
    \* ---- inputs/outputs of the pure functions checked on their own ----
    fin,
    fout,
    fpc

pvars == <<episodes, downloads, transcripts, progress_file, progress_results,
           aliased, all_findings, whisper_model, idx, pc, audio_path,
           transcript, findings, resumed, report, stages, last_dl, last_tr,
           load_count, invocations, prev_persisted, saved_in_run, completed>>
fvars == <<fin, fout, fpc>>
vars == <<pvars, fvars>>

-----------------------------------------------------------------------------
(* Strings                                                                 *)

Uppers == <<"A","B","C","D","E","F","G","H","I","J","K","L","M",
            "N","O","P","Q","R","S","T","U","V","W","X","Y","Z">>
Lowers == <<"a","b","c","d","e","f","g","h","i","j","k","l","m",
            "n","o","p","q","r","s","t","u","v","w","x","y","z">>
DigitChars == <<"0","1","2","3","4","5","6","7","8","9">>

Range(s) == {s[k] : k \in DOMAIN s}

IsUpper(c) == c \in Range(Uppers)
IsLowerLetter(c) == c \in Range(Lowers)
IsDigit(c) == c \in Range(DigitChars)
IsSpace(c) == c = " "

\* str.lower(), one character
LowerChar(c) ==
    IF IsUpper(c) THEN Lowers[CHOOSE k \in DOMAIN Uppers : Uppers[k] = c] ELSE c

\* str.lower()
Lower(s) == [k \in DOMAIN s |-> LowerChar(s[k])]

\* s[:n]
Take(s, n) == IF Len(s) <= n THEN s ELSE SubSeq(s, 1, n)

\* value of one decimal digit
DigitVal(c) == (CHOOSE k \in DOMAIN DigitChars : DigitChars[k] = c) - 1

\* int("007")
RECURSIVE StrToInt(_)
StrToInt(ds) ==
    IF ds = <<>> THEN 0
    ELSE 10 * StrToInt(SubSeq(ds, 1, Len(ds) - 1)) + DigitVal(ds[Len(ds)])

\* str(n) for n >= 0
RECURSIVE IntToStr(_)
IntToStr(n) ==
    IF n < 10 THEN <<DigitChars[n + 1]>>
    ELSE IntToStr(n \div 10) \o <<DigitChars[(n % 10) + 1]>>

\* f"{n:0Wd}": zero-padded to at least w digits
RECURSIVE ZeroPad(_, _)
ZeroPad(ds, w) == IF Len(ds) >= w THEN ds ELSE ZeroPad(<<"0">> \o ds, w)

\* needle in hay
Contains(hay, needle) ==
    \E p \in 1..(Len(hay) - Len(needle) + 1) :
        SubSeq(hay, p, p + Len(needle) - 1) = needle

Min(S) == CHOOSE x \in S : \A y \in S : x <= y

-----------------------------------------------------------------------------
(* Episode identifier: _extract_episode_number                             *)

None == [kind |-> "none", n |-> 0, s |-> <<>>]
IntNum(n) == [kind |-> "int", n |-> n, s |-> <<>>]
StrNum(s) == [kind |-> "str", n |-> 0, s |-> s]

PaidLiteral == <<"p","a","i","d","-","o","n","l","y"," ",
                 "e","p","i","s","o","d","e"," ">>
EpisodeLiteral == <<"e","p","i","s","o","d","e"," ">>

\* the literal part of the pattern matches at p (re.IGNORECASE) and at least
\* one \d follows
MatchesAt(lit, title, p) ==
    /\ p + Len(lit) <= Len(title)
    /\ Lower(SubSeq(title, p, p + Len(lit) - 1)) = lit
    /\ IsDigit(title[p + Len(lit)])

\* (\d+), greedy, from position p
RECURSIVE DigitRun(_, _)
DigitRun(title, p) ==
    IF p <= Len(title) /\ IsDigit(title[p])
    THEN <<title[p]>> \o DigitRun(title, p + 1)
    ELSE <<>>

\* re.search(lit + r'(\d+)', title, re.IGNORECASE): group(1) of the leftmost
\* match, or <<>> when there is no match
ReSearchNumber(lit, title) ==
    LET ps == {p \in 1..Len(title) : MatchesAt(lit, title, p)}
    IN  IF ps = {} THEN <<>> ELSE DigitRun(title, Min(ps) + Len(lit))

ExtractRegularFirst(title) ==
    LET reg == ReSearchNumber(EpisodeLiteral, title)
        paid == ReSearchNumber(PaidLiteral, title)
    IN  IF reg # <<>> THEN IntNum(StrToInt(reg))
        ELSE IF paid # <<>> THEN StrNum(<<"P">> \o paid)
        ELSE None

_extract_episode_number(title) ==
    LET paid == ReSearchNumber(PaidLiteral, title)
        reg == ReSearchNumber(EpisodeLiteral, title)
    IN  IF paid # <<>> THEN StrNum(<<"P">> \o paid)
        ELSE IF reg # <<>> THEN IntNum(StrToInt(reg))
        ELSE None

-----------------------------------------------------------------------------
(* File names: download_episode lines 125-154, transcribe_episode 176-206  *)

SafeTitleLen == 50
PadWidth == 3

IsWord(c) == IsUpper(c) \/ IsLowerLetter(c) \/ IsDigit(c) \/ c = "_"
IsSafe(c) == IsWord(c) \/ IsSpace(c) \/ c = "-"
IsSep(c) == IsSpace(c) \/ c = "-"

\* re.sub(r'[^\w\s-]', '', title)
RemoveUnsafe(s) == SelectSeq(s, IsSafe)

\* str.strip()
RECURSIVE LStrip(_)
LStrip(s) == IF s # <<>> /\ IsSpace(Head(s)) THEN LStrip(Tail(s)) ELSE s
RECURSIVE RStrip(_)
RStrip(s) ==
    IF s # <<>> /\ IsSpace(s[Len(s)]) THEN RStrip(SubSeq(s, 1, Len(s) - 1)) ELSE s
Strip(s) == RStrip(LStrip(s))

\* the rest of s after a leading run of [-\s]
RECURSIVE SkipSeps(_)
SkipSeps(s) == IF s # <<>> /\ IsSep(Head(s)) THEN SkipSeps(Tail(s)) ELSE s

\* re.sub(r'[-\s]+', '-', s)
RECURSIVE CollapseSeps(_)
CollapseSeps(s) ==
    IF s = <<>> THEN <<>>
    ELSE IF IsSep(Head(s)) THEN <<"-">> \o CollapseSeps(SkipSeps(s))
    ELSE <<Head(s)>> \o CollapseSeps(Tail(s))

SafeTitle(title) == Take(CollapseSeps(Strip(RemoveUnsafe(title))), SafeTitleLen)

Mp3 == <<".","m","p","3">>
TranscriptSuffix == <<"_","t","r","a","n","s","c","r","i","p","t",
                      ".","j","s","o","n">>

\* f"{ep_num:03d}"
Padded(n) == ZeroPad(IntToStr(n), PadWidth)

\* isinstance(ep_num, str) and ep_num.startswith('P')
IsPaidTag(num) == num.kind = "str" /\ num.s # <<>> /\ Head(num.s) = "P"

\* int(episode['episode_number'][1:])
OldNum(num) == StrToInt(Tail(num.s))

\* lines 126-138
AudioFilename(ep) ==
    LET safe == SafeTitle(ep.title)
        num == ep.episode_number
    IN  IF num.kind = "none" THEN safe \o Mp3
        ELSE IF num.kind = "int" THEN Padded(num.n) \o <<"_">> \o safe \o Mp3
        ELSE num.s \o <<"_">> \o safe \o Mp3

\* lines 149-150
OldAudioFilename(ep) ==
    Padded(OldNum(ep.episode_number)) \o <<"_">> \o SafeTitle(ep.title) \o Mp3

\* lines 176-187
TranscriptFilename(ep) ==
    LET num == ep.episode_number
    IN  IF num.kind = "none" THEN SafeTitle(ep.title) \o TranscriptSuffix
        ELSE IF num.kind = "int" THEN Padded(num.n) \o TranscriptSuffix
        ELSE num.s \o TranscriptSuffix

\* lines 200-201
OldTranscriptFilename(ep) == Padded(OldNum(ep.episode_number)) \o TranscriptSuffix

-----------------------------------------------------------------------------
(* Timestamps: _format_timestamp, _find_timestamp                          *)

QuotePrefixLen == 50
SecondsPerHour == 3600
SecondsPerMinute == 60
TwoDigits == 2

Unknown == <<"U","n","k","n","o","w","n">>

TwoDigit(n) == ZeroPad(IntToStr(n), TwoDigits)

_format_timestamp(seconds) ==
    LET hours == seconds \div SecondsPerHour
        minutes == (seconds % SecondsPerHour) \div SecondsPerMinute
        secs == seconds % SecondsPerMinute
    IN  IF hours > 0
        THEN IntToStr(hours) \o <<":">> \o TwoDigit(minutes) \o <<":">> \o TwoDigit(secs)
        ELSE IntToStr(minutes) \o <<":">> \o TwoDigit(secs)

\* line 330
SegmentMatches(quote_lower, segment) ==
    LET segment_text == Lower(segment.text)
    IN  Contains(segment_text, quote_lower) \/ Contains(quote_lower, segment_text)

\* the for loop of lines 328-335, from segment k on
RECURSIVE ScanSegments(_, _, _)
ScanSegments(segments, quote_lower, k) ==
    IF k > Len(segments) THEN Unknown
    ELSE IF SegmentMatches(quote_lower, segments[k])
         THEN _format_timestamp(segments[k].start)
         ELSE ScanSegments(segments, quote_lower, k + 1)

\* a plausible slip: the quote is matched whole, not cut to 50 characters
FindTimestampUncut(tr, quote) ==
    IF quote = <<>> \/ ~tr.has_segments THEN Unknown
    ELSE ScanSegments(tr.segments, Lower(quote), 1)

_find_timestamp(tr, quote) ==
    IF quote = <<>> \/ ~tr.has_segments THEN Unknown
    ELSE ScanSegments(tr.segments, Take(Lower(quote), QuotePrefixLen), 1)

-----------------------------------------------------------------------------
(* Report ordering: sort_key and findings.sort(key=sort_key, reverse=True) *)

KeyNone == 2
KeyPaid == 1
KeyRegular == 0

\* analyze_podcast.py, generate_report.sort_key
sort_key(x) ==
    LET ep_num == x.episode_number
    IN  IF ep_num.kind = "none" THEN <<KeyNone, 0>>
        ELSE IF ep_num.kind = "str" THEN <<KeyPaid, StrToInt(Tail(ep_num.s))>>
        ELSE <<KeyRegular, ep_num.n>>

\* generate_report_only.py, generate_report.sort_key
report_only_sort_key(x) ==
    LET ep_num == x.episode_number
    IN  IF ep_num.kind = "none" THEN <<KeyNone, 0>>
        ELSE IF ep_num.kind = "str" THEN <<KeyPaid, StrToInt(Tail(ep_num.s))>>
        ELSE <<KeyRegular, ep_num.n>>

\* tuple comparison a < b
TupleLess(a, b) == a[1] < b[1] \/ (a[1] = b[1] /\ a[2] < b[2])

\* x placed into a list already in descending key order, after every element
\* whose key is not smaller (list.sort is stable, also with reverse=True)
RECURSIVE InsertDesc(_, _, _)
InsertDesc(x, kx, sorted) ==
    IF sorted = <<>> THEN <<x>>
    ELSE IF TupleLess(Head(sorted).key, kx)
         THEN <<x>> \o sorted
         ELSE <<Head(sorted)>> \o InsertDesc(x, kx, Tail(sorted))

RECURSIVE SortKeyed(_)
SortKeyed(keyed) ==
    IF keyed = <<>> THEN <<>>
    ELSE LET last == keyed[Len(keyed)]
         IN  InsertDesc(last, last.key, SortKeyed(SubSeq(keyed, 1, Len(keyed) - 1)))

\* findings.sort(key=sort_key, reverse=True), analyze_podcast.py line 390
SortFindings(fs) ==
    LET keyed == [k \in DOMAIN fs |->
                    [key |-> sort_key(fs[k]), val |-> fs[k]]]
        sorted == SortKeyed(keyed)
    IN  [k \in DOMAIN sorted |-> sorted[k].val]

\* findings.sort(key=sort_key, reverse=True), generate_report_only.py line 29
ReportOnlySortFindings(fs) ==
    LET keyed == [k \in DOMAIN fs |->
                    [key |-> report_only_sort_key(fs[k]), val |-> fs[k]]]
        sorted == SortKeyed(keyed)
    IN  [k \in DOMAIN sorted |-> sorted[k].val]

-----------------------------------------------------------------------------
(* Inputs of the pipeline                                                  *)

MaxEpisodes == 2

T_Ep7 == <<"E","p","i","s","o","d","e"," ","7",":"," ","Q","&","A">>
T_Paid7 == <<"P","a","i","d","-","o","n","l","y"," ",
             "e","p","i","s","o","d","e"," ","7">>
T_Paid2 == <<"P","a","i","d","-","o","n","l","y"," ",
             "e","p","i","s","o","d","e"," ","2">>

\* an RSS entry: its title and the href of its first enclosure ("" when the
\* entry has no enclosure)
FeedEntries ==
    { [title |-> T_Ep7, href |-> "http"],
      [title |-> T_Paid7, href |-> "http"],
      [title |-> T_Paid2, href |-> ""] }

RECURSIVE SeqsUpTo(_, _)
SeqsUpTo(S, n) ==
    IF n = 0 THEN {<<>>}
    ELSE LET shorter == SeqsUpTo(S, n - 1)
         IN  shorter \cup {Append(q, x) : q \in {r \in shorter : Len(r) = n - 1}, x \in S}

Feeds == SeqsUpTo(FeedEntries, MaxEpisodes)

\* parse_rss_feed, lines 69-86 (TEST_MODE is False)
parse_rss_feed(feed) ==
    [k \in DOMAIN feed |->
        [title |-> feed[k].title,
         episode_number |-> _extract_episode_number(feed[k].title),
         audio_url |-> feed[k].href]]

\* what Whisper hears in any audio of the show, and what Claude may answer
Seg_WeShould == <<" ","W","e"," ","s","h","o","u","l","d">>
Quote_WeShould == <<"w","e"," ","s","h","o","u","l","d">>
WhisperSegments == <<[text |-> Seg_WeShould, start |-> 125]>>

ClaudeAnswers ==
    { [ok |-> FALSE, items |-> <<>>],
      [ok |-> TRUE, items |-> <<>>],
      [ok |-> TRUE, items |-> <<[topic |-> "replication", quote |-> Quote_WeShould,
                                 context |-> "ctx"]>>] }

-----------------------------------------------------------------------------
(* Files                                                                   *)

NoPath == <<>>
NoTranscript == [ok |-> FALSE, src |-> <<>>, has_segments |-> FALSE, segments |-> <<>>]

Exists(dir, name) == \E f \in dir : f.name = name
ReadFile(dir, name) == CHOOSE f \in dir : f.name = name
WriteFile(dir, name, src, complete) ==
    {f \in dir : f.name # name} \cup {[name |-> name, src |-> src, complete |-> complete]}

\* the result object of whisper_model.transcribe, and of json.load of a
\* transcript file written completely
WhisperResult(src) ==
    [ok |-> TRUE, src |-> src, has_segments |-> TRUE, segments |-> WhisperSegments]

\* files an earlier version of the program left for paid episodes
\* (comments at lines 146-147 and 197-198)
OldAudioFiles(eps) ==
    {[name |-> OldAudioFilename(eps[k]), src |-> eps[k].title, complete |-> TRUE] :
        k \in {j \in DOMAIN eps : IsPaidTag(eps[j].episode_number)}}
OldTranscriptFiles(eps) ==
    {[name |-> OldTranscriptFilename(eps[k]), src |-> eps[k].title, complete |-> TRUE] :
        k \in {j \in DOMAIN eps : IsPaidTag(eps[j].episode_number)}}

-----------------------------------------------------------------------------
(* The process: __init__, process_episodes, generate_report                *)

NoDl == [valid |-> FALSE, ep |-> 0, decision |-> "", new_existed |-> FALSE,
         old_existed |-> FALSE, http |-> FALSE, result |-> NoPath]
NoTr == [valid |-> FALSE, ep |-> 0, decision |-> "", loaded |-> FALSE,
         invoked |-> FALSE, raised |-> FALSE, result |-> NoTranscript,
         file_src |-> <<>>]

FreshStages(eps) == [k \in DOMAIN eps |-> <<>>]

Running == {"download", "transcribe", "analyze", "append", "save_open",
            "save_dump", "report"}

\* the loop of process_episodes moves to the next episode, or returns
LoopPc(i) == IF i > Len(episodes) THEN "report" ELSE "download"

\* _load_progress, lines 46-56: the results of the progress record
LoadedResults(file) == IF file.state = "ok" THEN file.results ELSE <<>>

Init ==
    /\ \E feed \in Feeds : episodes = parse_rss_feed(feed)
    /\ \E old \in SUBSET OldAudioFiles(episodes) : downloads = old
    /\ \E old \in SUBSET OldTranscriptFiles(episodes) : transcripts = old
    /\ progress_file = [state |-> "absent", results |-> <<>>]
    /\ progress_results = <<>>
    /\ aliased = FALSE
    /\ all_findings = <<>>
    /\ whisper_model = 0
    /\ idx = 1
    /\ pc = LoopPc(1)
    /\ audio_path = NoPath
    /\ transcript = NoTranscript
    /\ findings = <<>>
    /\ resumed = FALSE
    /\ report = <<>>
    /\ stages = FreshStages(episodes)
    /\ last_dl = NoDl
    /\ last_tr = NoTr
    /\ load_count = 0
    /\ invocations = <<>>
    /\ prev_persisted = <<>>
    /\ saved_in_run = FALSE
    /\ completed = <<>>
    /\ fin = 0 /\ fout = 0 /\ fpc = "unused"

\* stage was run for the current episode; returned: it gave a usable result
Log(stage, returned) ==
    stages' = [stages EXCEPT ![idx] = Append(@, [stage |-> stage, returned |-> returned])]

\* download_episode, lines 121-154: which branch is taken
DownloadSkipsCache(ep, dir) ==
    IF ep.audio_url = "" THEN "no_url" ELSE "fetch"

DownloadDecision(ep, dir) ==
    IF ep.audio_url = "" THEN "no_url"
    ELSE IF Exists(dir, AudioFilename(ep)) THEN "cached"
    ELSE IF IsPaidTag(ep.episode_number) /\ Exists(dir, OldAudioFilename(ep)) THEN "old"
    ELSE "fetch"

\* process_episodes, lines 357-358
AlwaysTranscribe(path) == "transcribe"

AfterDownload(path) == IF path = NoPath THEN "continue" ELSE "transcribe"

\* process_episodes line 356 with download_episode
Download ==
    /\ pc = "download"
    /\ LET ep == episodes[idx]
           d == DownloadDecision(ep, downloads)
           filename == AudioFilename(ep)
       IN  \E outcome \in IF d = "fetch" THEN {"ok", "http_error", "write_error"}
                          ELSE {"none"} :
             LET result == IF d = "cached" THEN filename
                           ELSE IF d = "old" THEN OldAudioFilename(ep)
                           ELSE IF d = "fetch" /\ outcome = "ok" THEN filename
                           ELSE NoPath
             IN  /\ downloads' =
                        IF d = "fetch" /\ outcome # "http_error"
                        THEN WriteFile(downloads, filename, ep.title, outcome = "ok")
                        ELSE downloads
                 /\ audio_path' = result
                 /\ last_dl' = [valid |-> TRUE, ep |-> idx, decision |-> d,
                                new_existed |-> Exists(downloads, filename),
                                old_existed |-> IsPaidTag(ep.episode_number)
                                    /\ Exists(downloads, OldAudioFilename(ep)),
                                http |-> d = "fetch", result |-> result]
                 /\ IF AfterDownload(result) = "continue"
                    THEN idx' = idx + 1 /\ pc' = LoopPc(idx + 1)
                    ELSE idx' = idx /\ pc' = "transcribe"
                 /\ Log("download", result # NoPath)
    /\ UNCHANGED <<episodes, transcripts, progress_file, progress_results, aliased,
                   all_findings, whisper_model, transcript, findings, resumed, report,
                   last_tr, load_count, invocations, prev_persisted, saved_in_run,
                   completed, fvars>>

\* transcribe_episode, lines 192-206: which branch is taken
TranscribeDecision(ep, dir) ==
    IF Exists(dir, TranscriptFilename(ep)) THEN "cached"
    ELSE IF IsPaidTag(ep.episode_number) /\ Exists(dir, OldTranscriptFilename(ep))
         THEN "old"
    ELSE "engine"

\* transcribe_episode, line 209
AlwaysLoad(model) == TRUE

NeedsLoad(model) == model = 0

\* process_episodes, lines 362-363
AfterTranscribe(tr) == IF ~tr.ok THEN "continue" ELSE "analyze"

\* process_episodes line 361 with transcribe_episode, a cache file found:
\* json.load of lines 195 and 206 stands outside the try of line 214
TranscribeCached ==
    /\ pc = "transcribe"
    /\ LET ep == episodes[idx]
           d == TranscribeDecision(ep, transcripts)
       IN  /\ d \in {"cached", "old"}
           /\ LET f == ReadFile(transcripts,
                                IF d = "cached" THEN TranscriptFilename(ep)
                                ELSE OldTranscriptFilename(ep))
                  result == IF f.complete THEN WhisperResult(f.src) ELSE NoTranscript
              IN  /\ transcript' = result
                  /\ last_tr' = [valid |-> TRUE, ep |-> idx, decision |-> d,
                                 loaded |-> FALSE, invoked |-> FALSE,
                                 raised |-> ~f.complete, result |-> result,
                                 file_src |-> f.src]
                  /\ IF ~f.complete
                     THEN idx' = idx /\ pc' = "raised"
                     ELSE IF AfterTranscribe(result) = "continue"
                          THEN idx' = idx + 1 /\ pc' = LoopPc(idx + 1)
                          ELSE idx' = idx /\ pc' = "analyze"
                  /\ Log("transcribe", result.ok)
    /\ UNCHANGED <<episodes, downloads, transcripts, progress_file, progress_results,
                   aliased, all_findings, whisper_model, audio_path, findings, resumed,
                   report, last_dl, load_count, invocations, prev_persisted,
                   saved_in_run, completed, fvars>>

\* process_episodes line 361 with transcribe_episode, no cache file:
\* lines 209-230; whisper.load_model stands outside the try of line 214
TranscribeEngine ==
    /\ pc = "transcribe"
    /\ LET ep == episodes[idx]
           d == TranscribeDecision(ep, transcripts)
           must_load == NeedsLoad(whisper_model)
           audio == ReadFile(downloads, audio_path)
       IN  /\ d = "engine"
           /\ \E load_ok \in BOOLEAN,
                 outcome \in {"ok", "transcribe_error", "dump_error"} :
                IF must_load /\ ~load_ok
                THEN /\ pc' = "raised"
                     /\ idx' = idx
                     /\ transcript' = NoTranscript
                     /\ last_tr' = [valid |-> TRUE, ep |-> idx, decision |-> d,
                                    loaded |-> FALSE, invoked |-> FALSE,
                                    raised |-> TRUE, result |-> NoTranscript,
                                    file_src |-> <<>>]
                     /\ Log("transcribe", FALSE)
                     /\ UNCHANGED <<whisper_model, load_count, invocations, transcripts>>
                ELSE LET model == IF must_load THEN load_count + 1 ELSE whisper_model
                         result == IF outcome = "ok" THEN WhisperResult(audio.src)
                                   ELSE NoTranscript
                     IN  /\ whisper_model' = model
                         /\ load_count' = IF must_load THEN load_count + 1 ELSE load_count
                         /\ invocations' = Append(invocations, model)
                         /\ transcripts' =
                                IF outcome = "transcribe_error" THEN transcripts
                                ELSE WriteFile(transcripts, TranscriptFilename(ep),
                                               audio.src, outcome = "ok")
                         /\ transcript' = result
                         /\ last_tr' = [valid |-> TRUE, ep |-> idx, decision |-> d,
                                        loaded |-> must_load, invoked |-> TRUE,
                                        raised |-> FALSE, result |-> result,
                                        file_src |-> <<>>]
                         /\ IF AfterTranscribe(result) = "continue"
                            THEN idx' = idx + 1 /\ pc' = LoopPc(idx + 1)
                            ELSE idx' = idx /\ pc' = "analyze"
                         /\ Log("transcribe", result.ok)
    /\ UNCHANGED <<episodes, downloads, progress_file, progress_results, aliased,
                   all_findings, audio_path, findings, resumed, report, last_dl,
                   prev_persisted, saved_in_run, completed, fvars>>

\* analyze_with_claude, lines 298-311
Enhance(ep, tr, items) ==
    [k \in DOMAIN items |->
        [episode_number |-> ep.episode_number,
         episode_title |-> ep.title,
         timestamp |-> _find_timestamp(tr, items[k].quote),
         topic |-> items[k].topic,
         quote |-> items[k].quote,
         context |-> items[k].context]]

\* process_episodes line 366 with analyze_with_claude
Analyze ==
    /\ pc = "analyze"
    /\ \E answer \in ClaudeAnswers :
          findings' = IF answer.ok THEN Enhance(episodes[idx], transcript, answer.items)
                      ELSE <<>>
    /\ pc' = "append"
    /\ Log("analyze", TRUE)
    /\ UNCHANGED <<episodes, downloads, transcripts, progress_file, progress_results,
                   aliased, all_findings, whisper_model, idx, audio_path, transcript,
                   resumed, report, last_dl, last_tr, load_count, invocations,
                   prev_persisted, saved_in_run, completed, fvars>>

\* process_episodes lines 367 and 370
AppendFindings ==
    /\ pc = "append"
    /\ all_findings' = all_findings \o findings
    /\ progress_results' = all_findings'
    /\ aliased' = TRUE
    /\ pc' = "save_open"
    /\ Log("append", TRUE)
    /\ UNCHANGED <<episodes, downloads, transcripts, progress_file, whisper_model, idx,
                   audio_path, transcript, findings, resumed, report, last_dl, last_tr,
                   load_count, invocations, prev_persisted, saved_in_run, completed,
                   fvars>>

\* _save_progress line 60: open(..., 'w') truncates progress.json
SaveOpen ==
    /\ pc = "save_open"
    /\ progress_file' = [state |-> "truncated", results |-> <<>>]
    /\ pc' = "save_dump"
    /\ UNCHANGED <<episodes, downloads, transcripts, progress_results, aliased,
                   all_findings, whisper_model, idx, audio_path, transcript, findings,
                   resumed, report, stages, last_dl, last_tr, load_count, invocations,
                   prev_persisted, saved_in_run, completed, fvars>>

\* _save_progress line 61: json.dump; then the loop goes on
SaveDump ==
    /\ pc = "save_dump"
    /\ progress_file' = [state |-> "ok", results |-> progress_results]
    /\ saved_in_run' = TRUE
    /\ completed' = Append(completed, [ep |-> idx, findings |-> findings])
    /\ idx' = idx + 1
    /\ pc' = LoopPc(idx + 1)
    /\ Log("save", TRUE)
    /\ UNCHANGED <<episodes, downloads, transcripts, progress_results, aliased,
                   all_findings, whisper_model, audio_path, transcript, findings, resumed,
                   report, last_dl, last_tr, load_count, invocations, prev_persisted,
                   fvars>>

\* main line 447 with generate_report: the list is sorted in place and the
\* rows are written in that order
GenerateReport ==
    /\ pc = "report"
    /\ LET sorted == SortFindings(all_findings)
       IN  /\ report' = sorted
           /\ all_findings' = sorted
           /\ progress_results' = IF aliased THEN sorted ELSE progress_results
    /\ pc' = "done"
    /\ UNCHANGED <<episodes, downloads, transcripts, progress_file, aliased,
                   whisper_model, idx, audio_path, transcript, findings, resumed, stages,
                   last_dl, last_tr, load_count, invocations, prev_persisted,
                   saved_in_run, completed, fvars>>

\* the process ends (it returned, it raised, or it is killed at any point of
\* the run) and the program is run again on the same feed: main, __init__
\* (lines 40-44, _load_progress) and parse_rss_feed; json.load of a truncated
\* progress.json raises inside the constructor
Restart ==
    /\ pc \in Running \cup {"raised", "done", "crashed"}
    /\ resumed' = TRUE
    /\ pc' = IF progress_file.state = "truncated" THEN "crashed" ELSE LoopPc(1)
    /\ idx' = 1
    /\ progress_results' = LoadedResults(progress_file)
    /\ prev_persisted' = LoadedResults(progress_file)
    /\ aliased' = FALSE
    /\ all_findings' = <<>>
    /\ whisper_model' = 0
    /\ audio_path' = NoPath
    /\ transcript' = NoTranscript
    /\ findings' = <<>>
    /\ report' = <<>>
    /\ stages' = FreshStages(episodes)
    /\ last_dl' = NoDl
    /\ last_tr' = NoTr
    /\ load_count' = 0
    /\ invocations' = <<>>
    /\ saved_in_run' = FALSE
    /\ completed' = <<>>
    /\ UNCHANGED <<episodes, downloads, transcripts, progress_file, fvars>>

Next ==
    \/ Download
    \/ TranscribeCached
    \/ TranscribeEngine
    \/ Analyze
    \/ AppendFindings
    \/ SaveOpen
    \/ SaveDump
    \/ GenerateReport
    \/ Restart

Spec == Init /\ [][Next]_vars

-----------------------------------------------------------------------------
(* The pure functions on their own inputs                                  *)

\* the process does not run while a function is exercised on its own
PipelineIdle ==
    /\ episodes = <<>>
    /\ downloads = {}
    /\ transcripts = {}
    /\ progress_file = [state |-> "absent", results |-> <<>>]
    /\ progress_results = <<>>
    /\ aliased = FALSE
    /\ all_findings = <<>>
    /\ whisper_model = 0
    /\ idx = 1
    /\ pc = "idle"
    /\ audio_path = NoPath
    /\ transcript = NoTranscript
    /\ findings = <<>>
    /\ resumed = FALSE
    /\ report = <<>>
    /\ stages = <<>>
    /\ last_dl = NoDl
    /\ last_tr = NoTr
    /\ load_count = 0
    /\ invocations = <<>>
    /\ prev_persisted = <<>>
    /\ saved_in_run = FALSE
    /\ completed = <<>>

\* ---- _extract_episode_number over titles put together from parts ----

MaxDigits == 2

W_Paid == <<"P","a","i","d","-","o","n","l","y"," ","e","p","i","s","o","d","e"," ">>
W_PAID == <<"P","A","I","D","-","O","N","L","Y"," ","E","p","i","s","o","d","e"," ">>
W_Episode == <<"E","p","i","s","o","d","e"," ">>
W_EPISODE == <<"E","P","I","S","O","D","E"," ">>
W_Episodes == <<"e","p","i","s","o","d","e","s"," ">>
W_PaidEp3 == <<"P","a","i","d","-","o","n","l","y"," ","e","p"," ">>
P_Ep3 == <<"E","p","i","s","o","d","e"," ","3"," ","-"," ">>
S_Paid9 == <<":"," ","p","a","i","d","-","o","n","l","y"," ",
             "E","P","I","S","O","D","E"," ","9">>

TitlePrefixes == {<<>>, P_Ep3, <<"#">>}
TitleWords == {W_Paid, W_PAID, W_Episode, W_EPISODE, W_Episodes, W_PaidEp3, <<>>}
TitleNumbers == SeqsUpTo({"0", "2", "7"}, MaxDigits)
TitleSuffixes == {<<>>, S_Paid9, <<"!">>}

ExtractTitles ==
    {a \o w \o n \o z : a \in TitlePrefixes, w \in TitleWords,
                        n \in TitleNumbers, z \in TitleSuffixes}

InitExtract ==
    /\ PipelineIdle
    /\ fin \in ExtractTitles
    /\ fout = None
    /\ fpc = "extract_in"

Extract ==
    /\ fpc = "extract_in"
    /\ fout' = _extract_episode_number(fin)
    /\ fpc' = "extract_out"
    /\ UNCHANGED <<fin, pvars>>

NextExtract == Extract

SpecExtract == InitExtract /\ [][NextExtract]_vars

\* ---- _find_timestamp over small transcripts and quotes ----

MaxSegments == 2

RECURSIVE Repeat(_, _)
Repeat(s, n) == IF n = 0 THEN <<>> ELSE s \o Repeat(s, n - 1)

\* 52 characters: its first 50, lower-cased, are "ab" 25 times
Q_Long == Repeat(<<"a","B">>, 25) \o <<"c","d">>
Q_Short == <<"A","B">>
Q_Other == <<"q">>
TimestampQuotes == {<<>>, Q_Long, Q_Short, Q_Other}

SegmentSamples ==
    { [text |-> <<" ">> \o Repeat(<<"A","b">>, 25) \o <<"!">>, start |-> 3725],
      [text |-> <<"b","A">>, start |-> 125],
      [text |-> <<"c","d">>, start |-> 45],
      [text |-> <<"z","z">>, start |-> 7],
      [text |-> <<>>, start |-> 59] }

TimestampTranscripts ==
    {[ok |-> TRUE, src |-> <<>>, has_segments |-> FALSE, segments |-> <<>>]}
    \cup {[ok |-> TRUE, src |-> <<>>, has_segments |-> TRUE, segments |-> segs] :
            segs \in SeqsUpTo(SegmentSamples, MaxSegments)}

InitTimestamp ==
    /\ PipelineIdle
    /\ fin \in [tr : TimestampTranscripts, quote : TimestampQuotes]
    /\ fout = <<>>
    /\ fpc = "timestamp_in"

FindTimestamp ==
    /\ fpc = "timestamp_in"
    /\ fout' = _find_timestamp(fin.tr, fin.quote)
    /\ fpc' = "timestamp_out"
    /\ UNCHANGED <<fin, pvars>>

NextTimestamp == FindTimestamp

SpecTimestamp == InitTimestamp /\ [][NextTimestamp]_vars

\* ---- the report's order over small findings lists ----

MaxFindings == 4

SampleFinding(num, topic) ==
    [episode_number |-> num, episode_title |-> <<>>, timestamp |-> Unknown,
     topic |-> topic, quote |-> <<>>, context |-> ""]

FindingSamples ==
    { SampleFinding(IntNum(5), "a"),
      SampleFinding(IntNum(10), "a"),
      SampleFinding(IntNum(10), "b"),
      SampleFinding(StrNum(<<"P","3">>), "a"),
      SampleFinding(StrNum(<<"P","1","2">>), "a"),
      SampleFinding(None, "a") }

InitReport ==
    /\ PipelineIdle
    /\ fin \in SeqsUpTo(FindingSamples, MaxFindings)
    /\ fout = <<>>
    /\ fpc = "report_in"

\* analyze_podcast.py generate_report on a findings list
ReportFull ==
    /\ fpc = "report_in"
    /\ fout' = SortFindings(fin)
    /\ fpc' = "report_full"
    /\ UNCHANGED <<fin, pvars>>

\* generate_report_only.py generate_report on the results of progress.json
ReportOnly ==
    /\ fpc = "report_in"
    /\ fout' = ReportOnlySortFindings(fin)
    /\ fpc' = "report_only"
    /\ UNCHANGED <<fin, pvars>>

NextReport == ReportFull \/ ReportOnly

SpecReport == InitReport /\ [][NextReport]_vars

-----------------------------------------------------------------------------
(* Properties                                                              *)

\* the bucket the report is meant to put a finding in, and its number
Bucket(f) ==
    IF f.episode_number.kind = "int" THEN 0
    ELSE IF f.episode_number.kind = "str" THEN 1
    ELSE 2
NumberOf(f) ==
    IF f.episode_number.kind = "int" THEN f.episode_number.n
    ELSE IF f.episode_number.kind = "str" THEN StrToInt(Tail(f.episode_number.s))
    ELSE 0

\* C1: the rows of a report (full run or report-only script) come in three
\* buckets: regular episodes first in descending number, then paid episodes
\* in descending number, then unnumbered episodes.
C1_ReportBuckets ==
    fpc \in {"report_full", "report_only"} =>
        \A a, b \in DOMAIN fout :
            a < b => \/ Bucket(fout[a]) < Bucket(fout[b])
                     \/ /\ Bucket(fout[a]) = Bucket(fout[b])
                        /\ NumberOf(fout[a]) >= NumberOf(fout[b])

\* C2: no failure inside a per-episode stage (download, transcribe with the
\* engine load and the cached transcript read, analyze) makes
\* process_episodes terminate with an exception.
C2_NeverRaises == pc # "raised"

StageOrder == <<"download", "transcribe", "analyze", "append", "save">>

\* C3: episodes are handled one at a time in feed order; each runs download,
\* transcribe, analyze, append, save in that order, a stage only after the
\* stage before it returned a result; an episode without audio_url gets
\* nothing after download; every row of the report belongs to an episode
\* that was analyzed.
C3_StageOrder ==
    pc \in Running \cup {"done", "raised"} =>
        /\ \A k \in DOMAIN stages :
              /\ Len(stages[k]) <= Len(StageOrder)
              /\ \A j \in DOMAIN stages[k] :
                    /\ stages[k][j].stage = StageOrder[j]
                    /\ j > 1 => stages[k][j - 1].returned
              /\ k > idx => stages[k] = <<>>
              /\ k < idx => stages[k] # <<>>
              /\ episodes[k].audio_url = "" => Len(stages[k]) <= 1
        /\ pc = "transcribe" => audio_path # NoPath
        /\ pc = "analyze" => transcript.ok
        /\ \A r \in DOMAIN all_findings :
              \E k \in DOMAIN episodes :
                  /\ episodes[k].episode_number = all_findings[r].episode_number
                  /\ episodes[k].title = all_findings[r].episode_title
                  /\ Len(stages[k]) >= 3
        /\ pc = "done" => report = all_findings

\* C3 witness: the feed 'Episode 7' with an enclosure, 'Paid-only episode 2'
\* without one, run to the end: the first went through every stage, the
\* second only through download, and the report holds episode 7's finding.
C3_Witness ==
    /\ pc = "done"
    /\ Len(episodes) = 2
    /\ episodes[1].title = T_Ep7 /\ episodes[1].audio_url # ""
    /\ episodes[2].title = T_Paid2 /\ episodes[2].audio_url = ""
    /\ Len(stages[1]) = Len(StageOrder)
    /\ Len(stages[2]) = 1
    /\ Len(report) = 1
    /\ report[1].episode_number = IntNum(7)

RECURSIVE Flatten(_)
Flatten(done) ==
    IF done = <<>> THEN <<>> ELSE Head(done).findings \o Flatten(Tail(done))

\* C4: at whatever point of a run the process is interrupted, progress.json
\* holds the findings of every episode whose pipeline completed earlier in
\* that run, in feed order.
C4_InterruptKeepsCompleted ==
    (pc \in Running /\ completed # <<>>) =>
        progress_file.results = Flatten(completed)

\* C5 as stated: for every episode, a file at its audio path is returned
\* without an HTTP request; for a paid episode whose new-scheme file is
\* missing and whose legacy file exists, the legacy path is returned without
\* an HTTP request; a request is issued only when neither exists.
C5_CacheHitEveryEpisode ==
    last_dl.valid =>
        LET ep == episodes[last_dl.ep]
        IN  /\ last_dl.new_existed =>
                  last_dl.result = AudioFilename(ep) /\ ~last_dl.http
            /\ (IsPaidTag(ep.episode_number) /\ ~last_dl.new_existed
                    /\ last_dl.old_existed) =>
                  last_dl.result = OldAudioFilename(ep) /\ ~last_dl.http
            /\ last_dl.http => ~last_dl.new_existed /\ ~last_dl.old_existed

\* C5 amended: the same for every episode that has an audio_url; an episode
\* without one yields absent and no HTTP request whatever files exist.
C5_CacheHit ==
    last_dl.valid =>
        LET ep == episodes[last_dl.ep]
        IN  /\ (ep.audio_url # "" /\ last_dl.new_existed) =>
                  last_dl.result = AudioFilename(ep) /\ ~last_dl.http
            /\ (ep.audio_url # "" /\ IsPaidTag(ep.episode_number)
                    /\ ~last_dl.new_existed /\ last_dl.old_existed) =>
                  last_dl.result = OldAudioFilename(ep) /\ ~last_dl.http
            /\ last_dl.http => ~last_dl.new_existed /\ ~last_dl.old_existed
            /\ ep.audio_url = "" => last_dl.result = NoPath /\ ~last_dl.http

\* C5 witness: a paid episode was served from its legacy file.
C5_Witness ==
    /\ last_dl.valid
    /\ episodes[last_dl.ep].audio_url # ""
    /\ ~last_dl.new_existed
    /\ last_dl.old_existed
    /\ last_dl.result = OldAudioFilename(episodes[last_dl.ep])
    /\ last_dl.result # AudioFilename(episodes[last_dl.ep])

\* the title holds the pattern in any letter case, followed by a digit
HasPattern(lit, title) ==
    \E d \in Range(DigitChars) : Contains(Lower(title), lit \o <<d>>)

\* ds is a whole run of digits of the title that follows an occurrence of lit
FollowsPattern(lit, title, ds) ==
    /\ ds # <<>>
    /\ \A k \in DOMAIN ds : IsDigit(ds[k])
    /\ \E p \in 1..Len(title) :
          /\ p + Len(lit) + Len(ds) - 1 <= Len(title)
          /\ Lower(SubSeq(title, p, p + Len(lit) - 1)) = lit
          /\ SubSeq(title, p + Len(lit), p + Len(lit) + Len(ds) - 1) = ds
          /\ \/ p + Len(lit) + Len(ds) - 1 = Len(title)
             \/ ~IsDigit(title[p + Len(lit) + Len(ds)])

\* C6: a title holding 'Paid-only episode N' in any case gives the tag
\* 'P'+N, never an integer; a title holding 'Episode N' in any case and no
\* paid pattern gives the integer N; any other title gives absent.
C6_PaidFirst ==
    fpc = "extract_out" =>
        /\ HasPattern(PaidLiteral, fin) =>
              /\ fout.kind = "str"
              /\ Head(fout.s) = "P"
              /\ FollowsPattern(PaidLiteral, fin, Tail(fout.s))
        /\ (~HasPattern(PaidLiteral, fin) /\ HasPattern(EpisodeLiteral, fin)) =>
              /\ fout.kind = "int"
              /\ \E a \in 1..Len(fin), b \in 1..Len(fin) :
                    /\ a <= b
                    /\ FollowsPattern(EpisodeLiteral, fin, SubSeq(fin, a, b))
                    /\ StrToInt(SubSeq(fin, a, b)) = fout.n
        /\ (~HasPattern(PaidLiteral, fin) /\ ~HasPattern(EpisodeLiteral, fin)) =>
              fout = None

\* C6 witness: a paid title in mixed case, with an 'Episode 3' before the
\* paid pattern, got its paid tag.
C6_Witness ==
    /\ fpc = "extract_out"
    /\ fin = P_Ep3 \o W_PAID \o <<"0","7">>
    /\ fout = StrNum(<<"P","0","7">>)

\* C7: in one process the engine is instantiated at most once and every
\* transcription uses that instance; a call that finds a transcript cache
\* file (new-scheme, or legacy for a paid tag) neither instantiates nor
\* invokes the engine, and what it returns is the content of that file.
C7_EngineOnce ==
    /\ load_count <= 1
    /\ \A k \in DOMAIN invocations :
          invocations[k] # 0 /\ invocations[k] = whisper_model
    /\ (last_tr.valid /\ last_tr.decision \in {"cached", "old"}) =>
          /\ ~last_tr.loaded
          /\ ~last_tr.invoked
          /\ last_tr.result.ok => last_tr.result = WhisperResult(last_tr.file_src)
    /\ (last_tr.valid /\ last_tr.decision = "engine") =>
          (last_tr.invoked => whisper_model # 0)

\* C7 witness: two episodes were transcribed by the engine in one process
\* after a single load.
C7_Witness ==
    /\ Len(invocations) = 2
    /\ load_count = 1
    /\ invocations[1] = invocations[2]

\* the quote as it is matched, and the segments it matches
MatchedQuote(quote) == Take(Lower(quote), QuotePrefixLen)
MatchingSegments(tr, quote) ==
    {k \in DOMAIN tr.segments :
        \/ Contains(Lower(tr.segments[k].text), MatchedQuote(quote))
        \/ Contains(MatchedQuote(quote), Lower(tr.segments[k].text))}

\* C8: _find_timestamp returns the formatted start of the first segment
\* whose lower-cased text contains the lower-cased 50-character prefix of
\* the quote or is contained in it, and "Unknown" exactly when the quote is
\* empty, the transcript has no segments, or no segment matches.
C8_FirstMatch ==
    fpc = "timestamp_out" =>
        LET hits == MatchingSegments(fin.tr, fin.quote)
            none == fin.quote = <<>> \/ ~fin.tr.has_segments \/ hits = {}
        IN  /\ (fout = Unknown) <=> none
            /\ ~none => fout = _format_timestamp(fin.tr.segments[Min(hits)].start)

\* C8 witness: a 52-character quote is found by its 50-character prefix in
\* the second segment, past a first segment that does not match, and the
\* time 3725 s is rendered 1:02:05.
C8_Witness ==
    /\ fpc = "timestamp_out"
    /\ fin.quote = Q_Long
    /\ Len(fin.tr.segments) = 2
    /\ MatchingSegments(fin.tr, fin.quote) = {2}
    /\ fout = <<"1",":","0","2",":","0","5">>

\* C9: in a later run on the same feed, after every save the results in
\* progress.json still include every finding the earlier run had persisted.
C9_ResumeKeepsFindings ==
    (resumed /\ saved_in_run /\ progress_file.state = "ok") =>
        \A k \in DOMAIN prev_persisted :
            \E j \in DOMAIN progress_file.results :
                progress_file.results[j] = prev_persisted[k]

\* the identity of an episode: its number or, lacking one, its sanitised title
EpisodeIdentity(title) ==
    LET num == _extract_episode_number(title)
    IN  IF num.kind = "none" THEN [num |-> num, title |-> SafeTitle(title)]
        ELSE [num |-> num, title |-> <<>>]

\* C10: the transcript transcribe_episode returns for an episode was
\* produced from that episode's own audio.
C10_OwnTranscript ==
    (last_tr.valid /\ last_tr.result.ok) =>
        EpisodeIdentity(last_tr.result.src)
            = EpisodeIdentity(episodes[last_tr.ep].title)

\* C11: after download_episode returned absent because the HTTP request or
\* the chunked write failed, no file exists at the computed audio path;
\* every file in the downloads directory is a completely downloaded audio;
\* and a cache hit never returns a file with partial content.
C11_FailedDownloadNoFile ==
    /\ (last_dl.valid /\ last_dl.http /\ last_dl.result = NoPath) =>
          ~Exists(downloads, AudioFilename(episodes[last_dl.ep]))
    /\ \A f \in downloads : f.complete
    /\ (last_dl.valid /\ last_dl.decision = "cached") =>
          ReadFile(downloads, last_dl.result).complete

=============================================================================
